---- MODULE Spec2Model ----
(***************************************************************************)
(* Model of the notebooks of 100daysofComputerVision:                      *)
(*   - Day_14_UNet.ipynb: the U-Net built from conv2d_block,               *)
(*     encoder_block, encoder, bottleneck, decoder_block, decoder, unet;   *)
(*   - the ResNet notebook: the Residual block;                            *)
(*   - the WGAN-GP notebook: WGAN.train_step, WGAN.gradient_penalty and    *)
(*     the GANMonitor callback;                                            *)
(*   - the face-detection notebook: the real-time detection loop.          *)
(* The notebooks are independent: a behaviour runs one of them.            *)
(*                                                                         *)
(* Tensors are modelled by their shapes <<batch, height, width, channels>> *)
(* (the symbolic Keras tensors of the U-Net have batch None); the values   *)
(* of the WGAN batch (pixels, logits, losses) are modelled as integers and *)
(* rationals.  A library call that raises (a shape mismatch) yields        *)
(* ShapeError.  Dropout rates are in tenths (3 is 0.3).                    *)
(***************************************************************************)
EXTENDS Integers, Sequences, FiniteSets, TLC

VARIABLES
    notebook,        \* which notebook this behaviour runs
    pc,              \* position in the running cell / function
    graph,           \* U-Net: the Keras layer graph built so far
    call,            \* U-Net / ResNet: the function called and its arguments
    ret,             \* U-Net: what the called function returned
    unetv,           \* U-Net: local variables of unet()
    resv,            \* ResNet: X, Y and the operations applied by Residual.call
    gan,             \* WGAN: the fields of the model and the locals of train_step
    mon,             \* WGAN: the GANMonitor callback, the epochs of fit and the saved files
    face             \* face detection: the capture, the current frame and the window

(***************************************************************************)
(* Bounds of the model                                                     *)
(***************************************************************************)
MaxDim == 4          \* heights and widths of the tensors passed to a direct call
MaxFilters == 2      \* filter / channel counts of direct calls
MaxPool == 2         \* pool sizes of direct calls to encoder_block
MaxBatch == 2        \* batch sizes
MaxStride == 2       \* strides of a Residual block
MaxGanBatch == 2     \* batch sizes of WGAN.train_step
MaxDSteps == 2       \* discriminator_extra_steps of the WGAN
MaxNumImg == 12      \* num_img of a GANMonitor
MaxEpochs == 11      \* epochs of a fit with a GANMonitor
MaxFrames == 3       \* frames the camera delivers before the model stops
MaxBlocks == 2       \* blocks of a ResNet arch
MaxResiduals == 2    \* residuals of one block

Rates == {0, 3, 5, 10}   \* dropout arguments, in tenths

NoValue == "none"
None == "None"           \* the batch dimension of a symbolic Keras tensor
ShapeError == <<>>       \* the library raised instead of returning a tensor

(***************************************************************************)
(* Shape arithmetic of the Keras layers                                    *)
(***************************************************************************)
CeilDiv(n, s) == (n + s - 1) \div s

\* Output length of a convolution or pooling window along one axis.
\* A result < 1 stands for the library's "negative dimension" error.
ConvDim(n, k, s, padding) ==
    IF padding = "same" THEN CeilDiv(n, s)
    ELSE IF n < k THEN 0 ELSE (n - k) \div s + 1

Conv2DShape(sh, filters, kernel_size, strides, padding) ==
    IF sh = ShapeError THEN ShapeError
    ELSE LET h == ConvDim(sh[2], kernel_size, strides, padding)
             w == ConvDim(sh[3], kernel_size, strides, padding)
         IN IF h < 1 \/ w < 1 THEN ShapeError ELSE <<sh[1], h, w, filters>>

\* MaxPooling2D(pool_size): strides default to pool_size, padding to 'valid'.
MaxPooling2DShape(sh, pool_size) ==
    IF sh = ShapeError THEN ShapeError
    ELSE LET h == ConvDim(sh[2], pool_size, pool_size, "valid")
             w == ConvDim(sh[3], pool_size, pool_size, "valid")
         IN IF h < 1 \/ w < 1 THEN ShapeError ELSE <<sh[1], h, w, sh[4]>>

\* Conv2DTranspose with padding 'same': every length is multiplied by the stride.
Conv2DTransposeShape(sh, filters, strides) ==
    IF sh = ShapeError THEN ShapeError
    ELSE <<sh[1], sh[2] * strides, sh[3] * strides, filters>>

\* concatenate along the last axis: all other axes must agree.
ConcatShape(a, b) ==
    IF a = ShapeError \/ b = ShapeError THEN ShapeError
    ELSE IF a[1] = b[1] /\ a[2] = b[2] /\ a[3] = b[3]
         THEN <<a[1], a[2], a[3], a[4] + b[4]>>
         ELSE ShapeError

(***************************************************************************)
(* The Keras functional graph: a sequence of layers, each with its output  *)
(* shape and the indices of the layers it is connected to.  A tensor is    *)
(* the index of the layer that produced it.                                *)
(***************************************************************************)
Failed(g) == \E i \in 1..Len(g) : g[i].shape = ShapeError

\* Once a layer call has raised, no later layer is created.
Add(g, kind, shape, inb, rate) ==
    IF Failed(g) THEN g
    ELSE Append(g, [kind |-> kind, shape |-> shape, inb |-> inb, rate |-> rate])

Out(g) == Len(g)

\* Apply a layer or block to the tensor the graph produced last.
Then(g, F(_, _)) == F(g, Out(g))

Input(shape) == <<[kind |-> "Input", shape |-> shape, inb |-> <<>>, rate |-> 0]>>

Conv2D(g, x, filters, kernel_size, strides, padding) ==
    Add(g, "Conv2D", Conv2DShape(g[x].shape, filters, kernel_size, strides, padding), <<x>>, 0)

Activation(g, x) == Add(g, "Activation", g[x].shape, <<x>>, 0)

MaxPooling2D(g, x, pool_size) ==
    Add(g, "MaxPooling2D", MaxPooling2DShape(g[x].shape, pool_size), <<x>>, 0)

Dropout(g, x, rate) == Add(g, "Dropout", g[x].shape, <<x>>, rate)

Conv2DTranspose(g, x, filters, kernel_size, strides) ==
    Add(g, "Conv2DTranspose", Conv2DTransposeShape(g[x].shape, filters, strides), <<x>>, 0)

Concatenate(g, a, b) ==
    Add(g, "Concatenate", ConcatShape(g[a].shape, g[b].shape), <<a, b>>, 0)

(***************************************************************************)
(* Day_14_UNet.ipynb                                                       *)
(***************************************************************************)
OUTPUT_CHANNELS == 3
INPUT_SIZE == 128        \* Input(shape=(128, 128, 3,))
INPUT_CHANNELS == 3
KERNEL_SIZE == 3         \* conv2d_block(..., kernel_size = 3)

\* conv2d_block with the padding argument left at the default 'valid'.
conv2d_block_valid(g, input_tensor, n_filters, kernel_size) ==
    LET conv(h, x) == Conv2D(h, x, n_filters, kernel_size, 1, "valid")
        g1 == conv(g, input_tensor)
        g2 == Then(g1, Activation)
        g3 == Then(g2, conv)
    IN Then(g3, Activation)
\* Two Conv2D layers, padding 'same', each followed by a ReLU activation.
conv2d_block(g, input_tensor, n_filters, kernel_size) ==
    LET conv(h, x) == Conv2D(h, x, n_filters, kernel_size, 1, "same")
        g1 == conv(g, input_tensor)
        g2 == Then(g1, Activation)
        g3 == Then(g2, conv)
    IN Then(g3, Activation)

\* return f, p (with the graph after the block)
BlockResult(gf, gd) == [g |-> gd, f |-> Out(gf), p |-> Out(gd)]

\* encoder_block pooling before the convolutions, f taken after the pooling.
encoder_block_pool_first(g, inputs, n_filters, pool_size, dropout) ==
    LET gq == MaxPooling2D(g, inputs, pool_size)
        gf == Then(gq, LAMBDA h, x : conv2d_block(h, x, n_filters, KERNEL_SIZE))
        gd == Then(gf, LAMBDA h, x : Dropout(h, x, 3))
    IN BlockResult(gf, gd)
\* f is the output of the convolution block, p the max-pooled features with
\* dropout.  The Dropout layer is built with the literal 0.3.
encoder_block(g, inputs, n_filters, pool_size, dropout) ==
    LET gf == conv2d_block(g, inputs, n_filters, KERNEL_SIZE)
        gp == Then(gf, LAMBDA h, x : MaxPooling2D(h, x, pool_size))
        gd == Then(gp, LAMBDA h, x : Dropout(h, x, 3))
    IN BlockResult(gf, gd)

encoder(g, inputs) ==
    LET next(b, n_filters) == encoder_block(b.g, b.p, n_filters, 2, 3)
        result(c1, c2, c3, c4) ==
            [g |-> c4.g, p4 |-> c4.p, convs |-> <<c1.f, c2.f, c3.f, c4.f>>]
        b1 == encoder_block(g, inputs, 64, 2, 3)
        b2 == next(b1, 128)
        b3 == next(b2, 256)
        b4 == next(b3, 512)
    IN result(b1, b2, b3, b4)

bottleneck(g, inputs) == conv2d_block(g, inputs, 1024, KERNEL_SIZE)

decoder_block(g, inputs, conv_output, n_filters, kernel_size, strides, dropout) ==
    LET gu == Conv2DTranspose(g, inputs, n_filters, kernel_size, strides)
        gc == Then(gu, LAMBDA h, u : Concatenate(h, u, conv_output))
        gd == Then(gc, LAMBDA h, c : Dropout(h, c, dropout))
    IN Then(gd, LAMBDA h, c : conv2d_block(h, c, n_filters, 3))

\* decoder_block's default strides=3 used instead of the strides=(2,2) passed.
decoder_default_strides(g, inputs, convs, output_channels) ==
    LET c6 == decoder_block(g, inputs, convs[4], 512, 3, 3, 3)
        c7 == Then(c6, LAMBDA h, x : decoder_block(h, x, convs[3], 256, 3, 3, 3))
        c8 == Then(c7, LAMBDA h, x : decoder_block(h, x, convs[2], 128, 3, 3, 3))
        c9 == Then(c8, LAMBDA h, x : decoder_block(h, x, convs[1], 64, 3, 3, 3))
    IN Then(c9, LAMBDA h, x : Conv2D(h, x, output_channels, 1, 1, "valid"))
\* The skip connections taken in encoder order instead of reverse order.
decoder_forward_skips(g, inputs, convs, output_channels) ==
    LET c6 == decoder_block(g, inputs, convs[1], 512, 3, 2, 3)
        c7 == Then(c6, LAMBDA h, x : decoder_block(h, x, convs[2], 256, 3, 2, 3))
        c8 == Then(c7, LAMBDA h, x : decoder_block(h, x, convs[3], 128, 3, 2, 3))
        c9 == Then(c8, LAMBDA h, x : decoder_block(h, x, convs[4], 64, 3, 2, 3))
    IN Then(c9, LAMBDA h, x : Conv2D(h, x, output_channels, 1, 1, "valid"))
\* c6 .. c9 and the final 1x1 convolution with softmax (padding 'valid').
decoder(g, inputs, convs, output_channels) ==
    LET c6 == decoder_block(g, inputs, convs[4], 512, 3, 2, 3)
        c7 == Then(c6, LAMBDA h, x : decoder_block(h, x, convs[3], 256, 3, 2, 3))
        c8 == Then(c7, LAMBDA h, x : decoder_block(h, x, convs[2], 128, 3, 2, 3))
        c9 == Then(c8, LAMBDA h, x : decoder_block(h, x, convs[1], 64, 3, 2, 3))
    IN Then(c9, LAMBDA h, x : Conv2D(h, x, output_channels, 1, 1, "valid"))

NoUnet == [inputs |-> 0, encoder_output |-> 0, convs |-> <<>>, bottle_neck |-> 0, outputs |-> 0]

\* unet(): inputs = Input(shape=(128, 128, 3,))
UnetInput ==
    /\ notebook = "unet" /\ pc = "start"
    /\ graph' = Input(<<None, INPUT_SIZE, INPUT_SIZE, INPUT_CHANNELS>>)
    /\ unetv' = [unetv EXCEPT !.inputs = 1]
    /\ call' = [fn |-> "unet"]
    /\ pc' = "encoder"
    /\ UNCHANGED <<notebook, ret, resv, gan, mon, face>>

\* encoder_output, convs = encoder(inputs)
UnetEncoder ==
    /\ notebook = "unet" /\ pc = "encoder"
    /\ LET e == encoder(graph, unetv.inputs)
       IN /\ graph' = e.g
          /\ unetv' = [unetv EXCEPT !.encoder_output = e.p4, !.convs = e.convs]
    /\ pc' = "bottleneck"
    /\ UNCHANGED <<notebook, call, ret, resv, gan, mon, face>>

\* bottle_neck = bottleneck(encoder_output)
UnetBottleneck ==
    /\ notebook = "unet" /\ pc = "bottleneck"
    /\ graph' = bottleneck(graph, unetv.encoder_output)
    /\ unetv' = [unetv EXCEPT !.bottle_neck = Out(graph')]
    /\ pc' = "decoder"
    /\ UNCHANGED <<notebook, call, ret, resv, gan, mon, face>>

\* outputs = decoder(bottle_neck, convs, output_channels=OUTPUT_CHANNELS)
UnetDecoder ==
    /\ notebook = "unet" /\ pc = "decoder"
    /\ graph' = decoder(graph, unetv.bottle_neck, unetv.convs, OUTPUT_CHANNELS)
    /\ unetv' = [unetv EXCEPT !.outputs = Out(graph')]
    /\ pc' = "model"
    /\ UNCHANGED <<notebook, call, ret, resv, gan, mon, face>>

\* model = tf.keras.Model(inputs=inputs, outputs=outputs); return model
UnetModel ==
    /\ notebook = "unet" /\ pc = "model"
    /\ ret' = [inputs |-> unetv.inputs, outputs |-> unetv.outputs]
    /\ pc' = "returned"
    /\ UNCHANGED <<notebook, graph, call, unetv, resv, gan, mon, face>>

\* A caller's encoder_block(inputs, n_filters, pool_size, dropout).
CallEncoderBlock ==
    /\ notebook = "unet" /\ pc = "start"
    /\ \E h \in 1..MaxDim, w \in 1..MaxDim, n \in 1..MaxFilters,
          ps \in 1..MaxPool, d \in Rates :
         LET r == encoder_block(Input(<<None, h, w, INPUT_CHANNELS>>), 1, n, ps, d)
         IN /\ call' = [fn |-> "encoder_block", n_filters |-> n, pool_size |-> ps, dropout |-> d]
            /\ graph' = r.g
            /\ ret' = [f |-> r.f, p |-> r.p]
    /\ pc' = "returned"
    /\ UNCHANGED <<notebook, unetv, resv, gan, mon, face>>

\* A caller's bottleneck(inputs).
CallBottleneck ==
    /\ notebook = "unet" /\ pc = "start"
    /\ \E h \in 1..MaxDim, w \in 1..MaxDim, c \in 1..MaxFilters :
         /\ call' = [fn |-> "bottleneck"]
         /\ graph' = bottleneck(Input(<<None, h, w, c>>), 1)
         /\ ret' = [bottle_neck |-> Out(graph')]
    /\ pc' = "returned"
    /\ UNCHANGED <<notebook, unetv, resv, gan, mon, face>>

(***************************************************************************)
(* The ResNet notebook: class Residual                                     *)
(***************************************************************************)
\* An addition that demands equal lengths.
BroadcastDimEqual(a, b) == IF a = b THEN a ELSE 0
\* Y += X on tensors is an addition with broadcasting: two lengths are
\* compatible when they are equal or one of them is 1.
BroadcastDim(a, b) == IF a = b THEN a ELSE IF a = 1 THEN b ELSE IF b = 1 THEN a ELSE 0

AddShape(y, x) ==
    IF y = ShapeError \/ x = ShapeError THEN ShapeError
    ELSE LET s == [i \in 1..4 |-> BroadcastDim(y[i], x[i])]
         IN IF \E i \in 1..4 : s[i] = 0 THEN ShapeError ELSE s

\* conv1 without padding='same'.
conv1_valid(X, num_channels, strides) == Conv2DShape(X, num_channels, 3, strides, "valid")
\* self.conv1 = Conv2D(num_channels, padding='same', kernel_size=3, strides=strides)
conv1(X, num_channels, strides) == Conv2DShape(X, num_channels, 3, strides, "same")

\* self.conv2 = Conv2D(num_channels, kernel_size=3, padding='same')
conv2(Y, num_channels) == Conv2DShape(Y, num_channels, 3, 1, "same")

\* conv3 with the output length rounded down to floor(n / strides).
conv3_floor(X, num_channels, strides) ==
    IF X[2] \div strides < 1 \/ X[3] \div strides < 1 THEN ShapeError
    ELSE <<X[1], X[2] \div strides, X[3] \div strides, num_channels>>
\* self.conv3 = Conv2D(num_channels, kernel_size=1, strides=strides), padding 'valid'
conv3(X, num_channels, strides) == Conv2DShape(X, num_channels, 1, strides, "valid")

NoRes == [X |-> ShapeError, Y |-> ShapeError, ops |-> <<>>]

ResidualCalled(num_channels, use_1x1conv, strides, X) ==
    /\ call' = [fn |-> "Residual", num_channels |-> num_channels,
                use_1x1conv |-> use_1x1conv, strides |-> strides, X |-> X]
    /\ resv' = [X |-> X, Y |-> ShapeError, ops |-> <<>>]
    /\ pc' = "conv1"
    /\ UNCHANGED <<notebook, graph, ret, unetv, gan, mon, face>>

\* blk = Residual(num_channels, use_1x1conv, strides); blk(X)
CallResidual ==
    /\ notebook = "resnet" /\ pc = "start"
    /\ \E b \in 1..MaxBatch, h \in 1..MaxDim, w \in 1..MaxDim, c \in 1..MaxFilters,
          n \in 1..MaxFilters, u \in BOOLEAN, s \in 1..MaxStride :
         ResidualCalled(n, u, s, <<b, h, w, c>>)

\* The two example cells: X = tf.random.normal((4, 6, 6, 3));
\* Residual(3)(X) and Residual(6, use_1x1conv=True, strides=2)(X).
ResidualExample ==
    /\ notebook = "resnet" /\ pc = "start"
    /\ \/ ResidualCalled(3, FALSE, 1, <<4, 6, 6, 3>>)
       \/ ResidualCalled(6, TRUE, 2, <<4, 6, 6, 3>>)

ResStep(at, op, Y, X, next) ==
    /\ notebook = "resnet" /\ pc = at
    /\ resv' = [X |-> X, Y |-> Y, ops |-> Append(resv.ops, op)]
    /\ pc' = next
    /\ UNCHANGED <<notebook, graph, call, ret, unetv, gan, mon, face>>

\* Y = relu(bn1(conv1(X)))
ResConv1 == ResStep("conv1", "conv1", conv1(resv.X, call.num_channels, call.strides), resv.X, "bn1")
ResBn1 == ResStep("bn1", "bn1", resv.Y, resv.X, "relu1")
ResRelu1 == ResStep("relu1", "relu", resv.Y, resv.X, "conv2")

\* Y = bn2(conv2(Y)); if self.conv3 is not None: ...
ResConv2 == ResStep("conv2", "conv2", conv2(resv.Y, call.num_channels), resv.X, "bn2")
\* The test of self.conv3 left out: the input itself is always the shortcut.
ResBn2NoConv3 == ResStep("bn2", "bn2", resv.Y, resv.X, "add")
ResBn2 == ResStep("bn2", "bn2", resv.Y, resv.X, IF call.use_1x1conv THEN "conv3" ELSE "add")

\* X = self.conv3(X)
ResConv3 == ResStep("conv3", "conv3", resv.Y, conv3(resv.X, call.num_channels, call.strides), "add")

\* Y += X: raises when the shapes cannot be broadcast.
ResAdd ==
    LET sum == AddShape(resv.Y, resv.X)
    IN ResStep("add", "add", sum, resv.X, IF sum = ShapeError THEN "raised" ELSE "relu2")

\* return relu(Y)
ResReturn ==
    /\ notebook = "resnet" /\ pc = "relu2"
    /\ resv' = [resv EXCEPT !.ops = Append(@, "relu")]
    /\ ret' = resv.Y
    /\ pc' = "returned"
    /\ UNCHANGED <<notebook, graph, call, unetv, gan, mon, face>>

(***************************************************************************)
(* The WGAN-GP notebook: class WGAN                                        *)
(*                                                                         *)
(* An image is a sequence of pixels, a batch a sequence of images; logits  *)
(* are one integer per sample.  What the networks, the random generator    *)
(* and the automatic differentiation return is chosen from small sets.     *)
(* Losses are exact rationals <<numerator, denominator>> in lowest terms.  *)
(***************************************************************************)
GP_WEIGHT == 10                        \* gp_weight=10.0

Images == {<<-1, 1>>, <<1, 0>>}        \* images of the data set and of the generator
Logits == {0, 1}                       \* discriminator outputs
Alphas == {-1, 1, 2}                   \* samples of tf.random.normal(..., 0.0, 1.0): below 0, in [0, 1], above 1
Grads == {<<0, 1>>, <<3, 4>>}          \* gradients of pred w.r.t. one interpolated image

RECURSIVE GCD(_, _)
GCD(a, b) == IF b = 0 THEN a ELSE GCD(b, a % b)
Abs(n) == IF n < 0 THEN -n ELSE n
Rat(n, d) == LET g == GCD(Abs(n), d) IN <<n \div g, d \div g>>
RAdd(a, b) == Rat(a[1] * b[2] + b[1] * a[2], a[2] * b[2])
RSub(a, b) == Rat(a[1] * b[2] - b[1] * a[2], a[2] * b[2])
RNeg(a) == <<-a[1], a[2]>>
RMul(a, k) == Rat(a[1] * k, a[2])

RECURSIVE SumSeq(_)
SumSeq(t) == IF t = <<>> THEN 0 ELSE t[1] + SumSeq(Tail(t))

reduce_mean(t) == Rat(SumSeq(t), Len(t))

Sqrt(n) == CHOOSE r \in 0..n : r * r = n

\* discriminator_loss with the operands swapped: real_loss - fake_loss.
discriminator_loss_swapped(real_img, fake_img) ==
    RSub(reduce_mean(real_img), reduce_mean(fake_img))
\* def discriminator_loss(real_img, fake_img): return fake_loss - real_loss
discriminator_loss(real_img, fake_img) ==
    LET real_loss == reduce_mean(real_img)
        fake_loss == reduce_mean(fake_img)
    IN RSub(fake_loss, real_loss)

\* def generator_loss(fake_img): return -tf.reduce_mean(fake_img)
generator_loss(fake_img) == RNeg(reduce_mean(fake_img))

\* interpolated = real_images + alpha * diff, alpha of shape [batch_size, 1, 1, 1]
\* broadcast over the pixels of each sample.
interpolate(alpha, real_images, fake_images) ==
    [s \in 1..Len(real_images) |->
        [q \in 1..Len(real_images[s]) |->
            LET diff == fake_images[s][q] - real_images[s][q]
            IN real_images[s][q] + alpha[s] * diff]]

\* norm = sqrt(reduce_sum(square(grads), axis=[1, 2, 3])); gp = reduce_mean((norm - 1.0) ** 2)
penalty(grads) ==
    LET norm == [s \in 1..Len(grads) |-> Sqrt(SumSeq([q \in 1..Len(grads[s]) |-> grads[s][q] * grads[s][q]]))]
    IN reduce_mean([s \in 1..Len(grads) |-> (norm[s] - 1) * (norm[s] - 1)])

\* A loop that runs one iteration too many.
InRangeInclusive(i, d_steps) == i <= d_steps
\* for i in range(self.d_steps)
InRange(i, d_steps) == i < d_steps

Batches(S, n) == [1..n -> S]

Unset == <<>>
NoGan == [d_steps |-> 0, real_images |-> Unset, batch_size |-> 0, i |-> 0,
          fake_images |-> Unset, fake_logits |-> Unset, real_logits |-> Unset,
          d_cost |-> Unset, alpha |-> Unset, interpolated |-> Unset, gp |-> Unset,
          d_loss |-> Unset, differentiated |-> Unset,
          gen_img_logits |-> Unset, g_loss |-> Unset, updates |-> <<>>]

\* wgan.fit calls train_step(real_images) on a batch; batch_size = tf.shape(real_images)[0]
TrainStep ==
    /\ notebook = "wgan" /\ pc = "start"
    /\ \E d \in 1..MaxDSteps, b \in 1..MaxGanBatch :
         \E real \in Batches(Images, b) :
            gan' = [NoGan EXCEPT !.d_steps = d, !.real_images = real, !.batch_size = b]
    /\ pc' = "d_loop"
    /\ UNCHANGED <<notebook, graph, call, ret, unetv, resv, mon, face>>

\* One more iteration of the discriminator loop: the forward pass under the
\* tape and d_cost = self.d_loss_fn(real_img=real_logits, fake_img=fake_logits).
DForward ==
    /\ notebook = "wgan" /\ pc = "d_loop"
    /\ InRange(gan.i, gan.d_steps)
    /\ \E fake \in Batches(Images, gan.batch_size),
          fl \in Batches(Logits, gan.batch_size),
          rl \in Batches(Logits, gan.batch_size) :
         gan' = [gan EXCEPT !.fake_images = fake, !.fake_logits = fl, !.real_logits = rl,
                            !.d_cost = discriminator_loss(rl, fl),
                            !.gp = Unset, !.d_loss = Unset, !.differentiated = Unset]
    /\ pc' = "gp"
    /\ UNCHANGED <<notebook, graph, call, ret, unetv, resv, mon, face>>

\* gradient_penalty, first part: alpha, diff, interpolated.  The logits are
\* not read again after d_cost and are dropped from the state here.
GPInterpolate ==
    /\ notebook = "wgan" /\ pc = "gp"
    /\ \E alpha \in Batches(Alphas, gan.batch_size) :
         gan' = [gan EXCEPT !.alpha = alpha,
                            !.interpolated = interpolate(alpha, gan.real_images, gan.fake_images),
                            !.fake_logits = Unset, !.real_logits = Unset]
    /\ pc' = "gp_grads"
    /\ UNCHANGED <<notebook, graph, call, ret, unetv, resv, mon, face>>

\* gradient_penalty, second part: pred, grads, norm, gp; back in train_step
\* d_loss = d_cost + gp * self.gp_weight.
GPReturn ==
    /\ notebook = "wgan" /\ pc = "gp_grads"
    /\ \E grads \in Batches(Grads, gan.batch_size) :
         LET gp == penalty(grads)
         IN gan' = [gan EXCEPT !.gp = gp,
                               !.d_loss = RAdd(gan.d_cost, RMul(gp, GP_WEIGHT)),
                               !.alpha = Unset, !.interpolated = Unset, !.fake_images = Unset]
    /\ pc' = "d_apply"
    /\ UNCHANGED <<notebook, graph, call, ret, unetv, resv, mon, face>>

\* d_gradient = tape.gradient(d_loss, ...); self.d_optimizer.apply_gradients(...)
DApply ==
    /\ notebook = "wgan" /\ pc = "d_apply"
    /\ gan' = [gan EXCEPT !.differentiated = gan.d_loss,
                          !.updates = Append(@, "d"),
                          !.i = @ + 1]
    /\ pc' = "d_loop"
    /\ UNCHANGED <<notebook, graph, call, ret, unetv, resv, mon, face>>

\* After the loop: the generator's forward pass, g_loss = self.g_loss_fn(gen_img_logits),
\* gen_gradient = tape.gradient(g_loss, ...) and self.g_optimizer.apply_gradients(...).
GeneratorStep ==
    /\ notebook = "wgan" /\ pc = "d_loop"
    /\ ~InRange(gan.i, gan.d_steps)
    /\ \E gl \in Batches(Logits, gan.batch_size) :
         gan' = [gan EXCEPT !.gen_img_logits = gl,
                            !.g_loss = generator_loss(gl),
                            !.differentiated = generator_loss(gl),
                            !.updates = Append(@, "g")]
    /\ pc' = "return"
    /\ UNCHANGED <<notebook, graph, call, ret, unetv, resv, mon, face>>

\* return {"d_loss": d_loss, "g_loss": g_loss}
TrainStepReturn ==
    /\ notebook = "wgan" /\ pc = "return"
    /\ ret' = [d_loss |-> gan.d_loss, g_loss |-> gan.g_loss]
    /\ pc' = "returned"
    /\ UNCHANGED <<notebook, graph, call, unetv, resv, gan, mon, face>>

\* fit goes on to the next batch.
FitNextBatch ==
    /\ notebook = "wgan" /\ pc = "returned"
    /\ pc' = "start"
    /\ gan' = NoGan
    /\ ret' = NoValue
    /\ UNCHANGED <<notebook, graph, call, unetv, resv, mon, face>>

(***************************************************************************)
(* The WGAN-GP notebook: class GANMonitor                                  *)
(*                                                                         *)
(* The working directory is a set of <<file name, content>> pairs with one *)
(* pair per name; the content of a saved image is the pair <<i, epoch>> of *)
(* the save that wrote it.  The directory holds no file when fit starts.   *)
(***************************************************************************)
Digit(d) ==
    CASE d = 0 -> "0" [] d = 1 -> "1" [] d = 2 -> "2" [] d = 3 -> "3" [] d = 4 -> "4"
      [] d = 5 -> "5" [] d = 6 -> "6" [] d = 7 -> "7" [] d = 8 -> "8" [] d = 9 -> "9"

\* "{n}".format(n=n) for an int n >= 0: the decimal digits, no padding.
RECURSIVE FormatInt(_)
FormatInt(n) == IF n < 10 THEN Digit(n) ELSE FormatInt(n \div 10) \o Digit(n % 10)

\* A format string without the underscore between the two fields.
FileNameNoSeparator(i, epoch) ==
    "generated_img_" \o FormatInt(i) \o FormatInt(epoch) \o ".png"
\* "generated_img_{i}_{epoch}.png".format(i=i, epoch=epoch)
FileName(i, epoch) ==
    "generated_img_" \o FormatInt(i) \o "_" \o FormatInt(epoch) \o ".png"

\* img.save(name): creates the file or replaces the file of that name.
Save(fs, name, content) == {f \in fs : f[1] # name} \cup {<<name, content>>}

\* for i in range(self.num_img): ... img.save(...)
RECURSIVE SaveImages(_, _, _, _)
SaveImages(fs, i, num_img, epoch) ==
    IF i >= num_img THEN fs
    ELSE SaveImages(Save(fs, FileName(i, epoch), <<i, epoch>>), i + 1, num_img, epoch)

NoMon == [num_img |-> 0, epochs |-> 0, epoch |-> 0, saves |-> 0, fs |-> {}]

\* cbk = GANMonitor(num_img=...); wgan.fit(..., epochs=epochs, callbacks=[cbk])
MonitorFit ==
    /\ notebook = "monitor" /\ pc = "start"
    /\ \E n \in 1..MaxNumImg, e \in 1..MaxEpochs :
         mon' = [NoMon EXCEPT !.num_img = n, !.epochs = e]
    /\ pc' = "fit"
    /\ UNCHANGED <<notebook, graph, call, ret, unetv, resv, gan, face>>

\* fit calls on_epoch_end(epoch) after each epoch, epoch = 0, 1, ...
OnEpochEnd ==
    /\ notebook = "monitor" /\ pc = "fit"
    /\ mon.epoch < mon.epochs
    /\ mon' = [mon EXCEPT !.fs = SaveImages(mon.fs, 0, mon.num_img, mon.epoch),
                          !.saves = @ + mon.num_img,
                          !.epoch = @ + 1]
    /\ UNCHANGED <<notebook, pc, graph, call, ret, unetv, resv, gan, face>>

\* fit returns after the last epoch.
MonitorFitReturn ==
    /\ notebook = "monitor" /\ pc = "fit"
    /\ mon.epoch = mon.epochs
    /\ pc' = "returned"
    /\ UNCHANGED <<notebook, graph, call, ret, unetv, resv, gan, mon, face>>

(***************************************************************************)
(* The ResNet notebook: class ResNet                                       *)
(***************************************************************************)
B1_CHANNELS == 64
NUM_CLASSES == 10
ArchChannels == {1, 64, 128}     \* num_channels of the blocks of an arch

\* Residual.call from the input's shape to the result's shape.
Residual(X, num_channels, use_1x1conv, strides) ==
    AddShape(conv2(conv1(X, num_channels, strides), num_channels),
             IF use_1x1conv THEN conv3(X, num_channels, strides) ELSE X)

\* MaxPool2D(pool_size=3, strides=2, padding='same')
MaxPool2DSame(sh) ==
    IF sh = ShapeError THEN ShapeError
    ELSE <<sh[1], ConvDim(sh[2], 3, 2, "same"), ConvDim(sh[3], 3, 2, "same"), sh[4]>>

\* ResNet.b1: Conv2D(64, kernel_size=7, strides=2, padding='same'), BN, relu, MaxPool2D
b1(X) == MaxPool2DSame(Conv2DShape(X, B1_CHANNELS, 7, 2, "same"))

\* block with a 1x1 convolution in every residual.
block_all_1x1conv(num_residuals, num_channels, first_block) ==
    [i \in 1..num_residuals |->
        [num_channels |-> num_channels, use_1x1conv |-> TRUE, strides |-> 2]]
\* ResNet.block: the residuals of one block, i = 0 of the source being the first.
block(num_residuals, num_channels, first_block) ==
    [i \in 1..num_residuals |->
        IF i = 1 /\ ~first_block
        THEN [num_channels |-> num_channels, use_1x1conv |-> TRUE, strides |-> 2]
        ELSE [num_channels |-> num_channels, use_1x1conv |-> FALSE, strides |-> 1]]

\* ResNet.__init__: the residuals of all blocks in the order of self.net.
RECURSIVE NetResiduals(_, _)
NetResiduals(arch, i) ==
    IF i > Len(arch) THEN <<>>
    ELSE block(arch[i][1], arch[i][2], i = 1) \o NetResiduals(arch, i + 1)

\* The forward pass through the residuals: each call with its input and its
\* result; the pass ends at the first call that raises.
RECURSIVE Forward(_, _, _)
ForwardStep(rest, l, X, Y, log) == Forward(rest, Y, Append(log, [layer |-> l, X |-> X, Y |-> Y]))
Forward(layers, X, log) ==
    IF layers = <<>> \/ X = ShapeError THEN log
    ELSE ForwardStep(Tail(layers), Head(layers), X,
                     Residual(X, Head(layers).num_channels, Head(layers).use_1x1conv,
                              Head(layers).strides), log)

\* GlobalAvgPool2D(), Dense(units=num_classes)
NetHead(log, X) ==
    IF log # <<>> /\ log[Len(log)].Y = ShapeError THEN ShapeError
    ELSE IF log = <<>> THEN <<X[1], NUM_CLASSES>> ELSE <<log[Len(log)].Y[1], NUM_CLASSES>>

NetCalled(arch, X, log) ==
    /\ call' = [fn |-> "ResNet", arch |-> arch, X |-> X]
    /\ ret' = [log |-> log, out |-> NetHead(log, b1(X))]
    /\ pc' = IF ret'.out = ShapeError THEN "raised" ELSE "returned"
    /\ UNCHANGED <<notebook, graph, unetv, resv, gan, mon, face>>

Archs(n) == [1..n -> (1..MaxResiduals) \X ArchChannels]

\* ResNet(arch).layer_summary(X_shape)
LayerSummary ==
    /\ notebook = "resnet" /\ pc = "start"
    /\ \E n \in 1..MaxBlocks, h \in 1..MaxDim, w \in 1..MaxDim :
         \E arch \in Archs(n) :
            NetCalled(arch, <<1, h, w, 1>>, Forward(NetResiduals(arch, 1), b1(<<1, h, w, 1>>), <<>>))

\* ResNet18().layer_summary((1, 96, 96, 1))
ResNet18 == <<<<2, 64>>, <<2, 128>>, <<2, 256>>, <<2, 512>>>>
ResNet18Summary ==
    /\ notebook = "resnet" /\ pc = "start"
    /\ NetCalled(ResNet18, <<1, 96, 96, 1>>,
                 Forward(NetResiduals(ResNet18, 1), b1(<<1, 96, 96, 1>>), <<>>))

(***************************************************************************)
(* The face-detection notebook                                             *)
(*                                                                         *)
(* A frame is its number and the set of rectangles <<x1, y1, x2, y2>>      *)
(* drawn on it.  The library calls on a frame that was read return         *)
(* normally; what read, detectMultiScale and waitKey return is chosen      *)
(* from small sets.                                                        *)
(***************************************************************************)
ORD_Q == 113                               \* ord("q")
Q_WITH_FLAGS == 1048689                    \* 0x100071: "q" with a modifier flag above the low byte
Keys == {-1, 81, ORD_Q, Q_WITH_FLAGS}      \* waitKey: no key, "Q", "q", "q" with flag bits
Faces == {<<0, 0, 20, 20>>, <<5, 10, 30, 40>>}   \* (x, y, w, h) of detectMultiScale

NoFrame == [id |-> 0, rects |-> {}]
NoFace == [opened |-> FALSE, result |-> TRUE, video_frame |-> NoFrame, faces |-> {},
           displayed |-> NoFrame, key |-> -1, trace |-> <<>>, frames |-> 0,
           detected |-> 0, shown |-> 0, released |-> 0, destroyed |-> 0]

\* The comparison without the mask.
KeyIsQNoMask(key) == key = ORD_Q
\* cv2.waitKey(1) & 0xFF == ord("q")
KeyIsQ(key) == (key % 256) = ORD_Q

\* The second corner given as (w, h).
RectangleNoOffset(f) == <<f[1], f[2], f[3], f[4]>>
\* cv2.rectangle(vid, (x, y), (x + w, y + h), (0, 255, 0), 4)
Rectangle(f) == <<f[1], f[2], f[1] + f[3], f[2] + f[4]>>

\* detect_bounding_box(vid): draws on vid itself and returns faces.
detect_bounding_box(vid, faces) ==
    [vid EXCEPT !.rects = @ \cup {Rectangle(f) : f \in faces}]

\* video_capture = cv2.VideoCapture(0): the camera may fail to open.
OpenCapture ==
    /\ notebook = "face" /\ pc = "start"
    /\ \E o \in BOOLEAN : face' = [NoFace EXCEPT !.opened = o]
    /\ pc' = "read"
    /\ UNCHANGED <<notebook, graph, call, ret, unetv, resv, gan, mon>>

\* result, video_frame = video_capture.read(); if result is False: break
FaceRead ==
    /\ notebook = "face" /\ pc = "read"
    /\ face.frames < MaxFrames
    /\ \E result \in (IF face.opened THEN BOOLEAN ELSE {FALSE}) :
         /\ face' = [face EXCEPT !.result = result,
                                 !.video_frame = IF result THEN [id |-> face.frames + 1, rects |-> {}]
                                                 ELSE NoFrame,
                                 !.frames = IF result THEN @ + 1 ELSE @,
                                 !.faces = {},
                                 !.trace = <<"read">>]
         /\ pc' = IF result THEN "detect" ELSE "release"
    /\ UNCHANGED <<notebook, graph, call, ret, unetv, resv, gan, mon>>

\* faces = detect_bounding_box(video_frame)
FaceDetect ==
    /\ notebook = "face" /\ pc = "detect"
    /\ \E faces \in SUBSET Faces :
         face' = [face EXCEPT !.faces = faces,
                              !.video_frame = detect_bounding_box(face.video_frame, faces),
                              !.detected = face.video_frame.id,
                              !.trace = Append(@, "detect_bounding_box")]
    /\ pc' = "imshow"
    /\ UNCHANGED <<notebook, graph, call, ret, unetv, resv, gan, mon>>

\* cv2.imshow("Face Detection Project", video_frame)
FaceShow ==
    /\ notebook = "face" /\ pc = "imshow"
    /\ face' = [face EXCEPT !.displayed = face.video_frame,
                            !.shown = face.video_frame.id,
                            !.trace = Append(@, "imshow")]
    /\ pc' = "waitKey"
    /\ UNCHANGED <<notebook, graph, call, ret, unetv, resv, gan, mon>>

\* if cv2.waitKey(1) & 0xFF == ord("q"): break
FaceWaitKey ==
    /\ notebook = "face" /\ pc = "waitKey"
    /\ \E key \in Keys :
         /\ face' = [face EXCEPT !.key = key, !.trace = Append(@, "waitKey")]
         /\ pc' = IF KeyIsQ(key) THEN "release" ELSE "read"
    /\ UNCHANGED <<notebook, graph, call, ret, unetv, resv, gan, mon>>

\* video_capture.release()
FaceRelease ==
    /\ notebook = "face" /\ pc = "release"
    /\ face' = [face EXCEPT !.released = @ + 1]
    /\ pc' = "destroy"
    /\ UNCHANGED <<notebook, graph, call, ret, unetv, resv, gan, mon>>

\* cv2.destroyAllWindows()
FaceDestroy ==
    /\ notebook = "face" /\ pc = "destroy"
    /\ face' = [face EXCEPT !.destroyed = @ + 1]
    /\ pc' = "returned"
    /\ UNCHANGED <<notebook, graph, call, ret, unetv, resv, gan, mon>>

vars == <<notebook, pc, graph, call, ret, unetv, resv, gan, mon, face>>

Init ==
    /\ notebook \in {"unet", "resnet", "wgan", "monitor", "face"}
    /\ pc = "start"
    /\ graph = <<>>
    /\ call = [fn |-> NoValue]
    /\ ret = NoValue
    /\ unetv = NoUnet
    /\ resv = NoRes
    /\ gan = NoGan
    /\ mon = NoMon
    /\ face = NoFace

Next ==
    \/ UnetInput \/ UnetEncoder \/ UnetBottleneck \/ UnetDecoder \/ UnetModel
    \/ CallEncoderBlock \/ CallBottleneck
    \/ CallResidual \/ ResidualExample
    \/ ResConv1 \/ ResBn1 \/ ResRelu1 \/ ResConv2 \/ ResBn2 \/ ResConv3 \/ ResAdd \/ ResReturn
    \/ TrainStep \/ DForward \/ GPInterpolate \/ GPReturn \/ DApply
    \/ GeneratorStep \/ TrainStepReturn \/ FitNextBatch
    \/ MonitorFit \/ OnEpochEnd \/ MonitorFitReturn
    \/ LayerSummary \/ ResNet18Summary
    \/ OpenCapture \/ FaceRead \/ FaceDetect \/ FaceShow \/ FaceWaitKey
    \/ FaceRelease \/ FaceDestroy

Spec == Init /\ [][Next]_vars

(***************************************************************************)
(* Properties of Day_14_UNet.ipynb                                         *)
(***************************************************************************)
\* The indices of the layers of one kind, in the order they were created.
RECURSIVE IndicesFrom(_, _, _)
IndicesFrom(g, kind, i) ==
    IF i > Len(g) THEN <<>>
    ELSE IF g[i].kind = kind THEN <<i>> \o IndicesFrom(g, kind, i + 1)
         ELSE IndicesFrom(g, kind, i + 1)
Indices(g, kind) == IndicesFrom(g, kind, 1)

HeightsWidths(g, kind) ==
    [k \in 1..Len(Indices(g, kind)) |->
        <<g[Indices(g, kind)[k]].shape[2], g[Indices(g, kind)[k]].shape[3]>>]

UnetReturned == notebook = "unet" /\ call.fn = "unet" /\ pc = "returned"
UnetEncoded == notebook = "unet" /\ call.fn = "unet" /\ pc \in {"bottleneck", "decoder", "model", "returned"}
UnetDecoded == notebook = "unet" /\ call.fn = "unet" /\ pc \in {"model", "returned"}

\* C4: the model built by unet() maps the 128x128x3 input to a 128x128 output
\* with OUTPUT_CHANNELS = 3 channels, after four 2x down-samplings
\* (64, 32, 16, 8) and four 2x up-samplings (16, 32, 64, 128).
C4_UnetOutputSize ==
    UnetReturned =>
        /\ ~Failed(graph)
        /\ graph[ret.inputs].shape = <<None, 128, 128, 3>>
        /\ graph[ret.outputs].shape = <<None, 128, 128, OUTPUT_CHANNELS>>
        /\ OUTPUT_CHANNELS = 3
        /\ HeightsWidths(graph, "MaxPooling2D") = <<<<64, 64>>, <<32, 32>>, <<16, 16>>, <<8, 8>>>>
        /\ HeightsWidths(graph, "Conv2DTranspose") = <<<<16, 16>>, <<32, 32>>, <<64, 64>>, <<128, 128>>>>

C4_Witness ==
    /\ UnetReturned
    /\ graph[ret.outputs].kind = "Conv2D"
    /\ graph[ret.outputs].shape = <<None, 128, 128, 3>>

\* C5: each of the four decoder blocks concatenates its upsampled tensor with
\* the output of the corresponding encoder block in reverse order (f4, f3,
\* f2, f1); the two tensors have equal height and width and the result has
\* 1024, 512, 256, 128 channels (n_filters plus the encoder block's filters).
C5_SkipConnections ==
    UnetDecoded =>
        LET cat == Indices(graph, "Concatenate")
        IN /\ Len(cat) = 4
           /\ \A k \in 1..4 :
                LET c == graph[cat[k]]
                    u == graph[c.inb[1]]
                    f == graph[c.inb[2]]
                IN /\ u.kind = "Conv2DTranspose"
                   /\ c.inb[1] = cat[k] - 1
                   /\ c.inb[2] = unetv.convs[5 - k]
                   /\ u.shape[2] = f.shape[2] /\ u.shape[3] = f.shape[3]
                   /\ c.shape[2] = u.shape[2] /\ c.shape[3] = u.shape[3]
                   /\ c.shape[4] = u.shape[4] + f.shape[4]
                   /\ u.shape[4] = <<512, 256, 128, 64>>[k]
                   /\ f.shape[4] = <<512, 256, 128, 64>>[k]
                   /\ c.shape[4] = <<1024, 512, 256, 128>>[k]

C5_Witness ==
    /\ UnetDecoded
    /\ Len(Indices(graph, "Concatenate")) = 4
    /\ graph[Indices(graph, "Concatenate")[4]].shape = <<None, 128, 128, 128>>

\* C6: encoder() chains four blocks with 64, 128, 256, 512 filters, each
\* halving height and width in its pooling layer; it returns the
\* pooled-with-dropout output p4 of the last block and (f1, f2, f3, f4), f_k
\* being the convolution output that the pooling layer of block k consumes.
C6_EncoderChain ==
    UnetEncoded =>
        LET pool == Indices(graph, "MaxPooling2D")
            drop == Indices(graph, "Dropout")
        IN /\ Len(unetv.convs) = 4
           /\ Len(pool) = 4
           /\ \A k \in 1..4 :
                LET f == graph[unetv.convs[k]]
                    p == graph[pool[k]]
                    d == graph[drop[k]]
                IN /\ f.kind = "Activation"
                   /\ graph[f.inb[1]].kind = "Conv2D"
                   /\ f.shape[4] = <<64, 128, 256, 512>>[k]
                   /\ p.inb = <<unetv.convs[k]>>
                   /\ unetv.convs[k] < pool[k]
                   /\ 2 * p.shape[2] = f.shape[2] /\ 2 * p.shape[3] = f.shape[3]
                   /\ p.shape[4] = f.shape[4]
                   /\ d.inb = <<pool[k]>> /\ d.shape = p.shape
                   /\ k > 1 => graph[unetv.convs[k - 1]].shape[4] < f.shape[4]
           /\ unetv.encoder_output = drop[4]
           /\ graph[unetv.encoder_output].shape = <<None, 8, 8, 512>>

C6_Witness ==
    /\ UnetEncoded /\ pc = "bottleneck"
    /\ Len(unetv.convs) = 4
    /\ graph[unetv.convs[1]].shape = <<None, 128, 128, 64>>
    /\ graph[unetv.encoder_output].kind = "Dropout"

EncoderBlockReturned ==
    notebook = "unet" /\ call.fn = "encoder_block" /\ pc = "returned" /\ ~Failed(graph)

\* C7: the rate of the dropout layer that encoder_block applies to the
\* max-pooled features is the value of its dropout argument.
C7_DropoutRateIsArgument ==
    EncoderBlockReturned =>
        /\ graph[ret.p].kind = "Dropout"
        /\ graph[ret.p].rate = call.dropout

\* C8: bottleneck() has no pooling layer: its output has the height and width
\* of its input (8x8 in unet()) and 1024 channels.
C8_BottleneckKeepsSize ==
    /\ (notebook = "unet" /\ call.fn = "bottleneck" /\ pc = "returned") =>
          /\ ~Failed(graph)
          /\ Indices(graph, "MaxPooling2D") = <<>>
          /\ graph[ret.bottle_neck].shape =
                <<graph[1].shape[1], graph[1].shape[2], graph[1].shape[3], 1024>>
    /\ (notebook = "unet" /\ call.fn = "unet" /\ pc \in {"decoder", "model", "returned"}) =>
          /\ graph[unetv.encoder_output].shape = <<None, 8, 8, 512>>
          /\ graph[unetv.bottle_neck].shape = <<None, 8, 8, 1024>>
          /\ \A i \in (unetv.encoder_output + 1)..unetv.bottle_neck :
                graph[i].kind # "MaxPooling2D"

C8_Witness ==
    /\ notebook = "unet" /\ call.fn = "bottleneck" /\ pc = "returned"
    /\ graph[1].shape[2] = 1 /\ graph[1].shape[3] = MaxDim
    /\ graph[ret.bottle_neck].shape[2] = 1

(***************************************************************************)
(* Properties of the Residual block                                        *)
(***************************************************************************)
ResidualRuns == notebook = "resnet" /\ call.fn = "Residual"

\* C9: a Residual block with the defaults (use_1x1conv=False, strides=1) and
\* num_channels equal to the input's channel count does not raise and
\* returns a tensor of exactly the input's shape.
C9_ResidualSameShape ==
    (ResidualRuns /\ ~call.use_1x1conv /\ call.strides = 1
        /\ call.num_channels = call.X[4]) =>
        /\ pc # "raised"
        /\ pc = "returned" => ret = call.X

C9_Witness ==
    /\ ResidualRuns /\ pc = "returned"
    /\ ~call.use_1x1conv /\ call.strides = 1
    /\ call.X = <<4, 6, 6, 3>> /\ ret = <<4, 6, 6, 3>>

\* C10: Residual(num_channels, use_1x1conv=True, strides=2) halves height and
\* width (rounding up for an odd length) and sets the channel count to
\* num_channels; for every h, w >= 1 the main branch and the shortcut branch
\* have the same shape at the addition, which therefore never raises.
C10_ResidualHalving ==
    (ResidualRuns /\ call.use_1x1conv /\ call.strides = 2) =>
        /\ pc # "raised"
        /\ pc = "add" => resv.Y = resv.X
        /\ pc = "returned" =>
             /\ ret = <<call.X[1], CeilDiv(call.X[2], 2), CeilDiv(call.X[3], 2), call.num_channels>>
             /\ call.X[2] % 2 = 0 => 2 * ret[2] = call.X[2]
             /\ call.X[3] % 2 = 0 => 2 * ret[3] = call.X[3]

C10_Witness ==
    /\ ResidualRuns /\ pc = "returned"
    /\ call.use_1x1conv /\ call.strides = 2
    /\ call.X = <<4, 6, 6, 3>> /\ ret = <<4, 3, 3, 6>>

(***************************************************************************)
(* The addition of a Residual block without the 1x1 convolution            *)
(***************************************************************************)
PlainResidualAdded ==
    /\ ResidualRuns /\ ~call.use_1x1conv
    /\ pc \in {"raised", "relu2", "returned"}
NetRuns == notebook = "resnet" /\ call.fn = "ResNet"
Compatible(a, b) == a = b \/ a = 1 \/ b = 1
\* The main branch of a plain block on an input (b, h, w, c) has the shape
\* (b, ceil(h / strides), ceil(w / strides), num_channels).
Addable(h, w, c, num_channels, strides) ==
    /\ Compatible(num_channels, c)
    /\ Compatible((h + strides - 1) \div strides, h)
    /\ Compatible((w + strides - 1) \div strides, w)
CallOps == <<"conv1", "bn1", "relu", "conv2", "bn2", "add">>

\* C15 as stated: a Residual block without the 1x1 convolution raises at
\* Y += X whenever num_channels differs from the input's channel count or
\* strides is not 1 on an input with height or width greater than 1.
C15_PlainResidualRaises ==
    (PlainResidualAdded
        /\ (\/ call.num_channels # call.X[4]
            \/ (call.strides # 1 /\ (call.X[2] > 1 \/ call.X[3] > 1)))) =>
        pc = "raised"

\* C15 as amended: a Residual block without the 1x1 convolution raises at
\* Y += X exactly when the main branch and the input cannot be broadcast
\* against each other: two lengths that differ and are both greater than 1.
\* The raise comes from the addition, after conv1 .. bn2, and nothing is
\* returned.  Where a length is 1 the addition broadcasts instead, and the
\* block returns the broadcast shape.  In a ResNet every plain residual of a
\* later block receives num_channels channels from the layer before it and
\* never raises; the plain residuals of the first block receive the 64
\* channels of b1 and raise unless num_channels is 64 or 1.
C15_PlainResidualBroadcast ==
    /\ PlainResidualAdded =>
         /\ pc = "raised" <=>
              ~Addable(call.X[2], call.X[3], call.X[4], call.num_channels, call.strides)
         /\ pc = "raised" => (resv.ops = CallOps /\ ret = NoValue)
         /\ pc = "returned" =>
              ret = <<call.X[1], call.X[2], call.X[3],
                      IF call.num_channels = 1 THEN call.X[4] ELSE call.num_channels>>
    /\ (ResidualRuns /\ ~call.use_1x1conv) => (pc = "raised" => resv.ops = CallOps)
    /\ NetRuns =>
         \A j \in 1..Len(ret.log) :
            LET e == ret.log[j]
            IN ~e.layer.use_1x1conv =>
                 /\ e.X[4] = IF j <= call.arch[1][1] THEN 64 ELSE e.layer.num_channels
                 /\ e.Y = ShapeError <=> ~Compatible(e.layer.num_channels, e.X[4])
                 /\ e.Y = ShapeError => (j = 1 /\ pc = "raised")
                 /\ e.Y # ShapeError => e.Y = e.X

\* An input with one channel is added to a main branch with two channels,
\* and the block returns two channels.
C15_Witness ==
    /\ PlainResidualAdded /\ pc = "returned"
    /\ call.X[4] = 1 /\ call.num_channels = 2 /\ ret[4] = 2
\* A plain block with strides 2 raises on a height of 3.
C15_WitnessRaised ==
    /\ PlainResidualAdded /\ pc = "raised"
    /\ call.X[2] = 3 /\ call.strides = 2 /\ call.num_channels = call.X[4]
\* The first block of a ResNet asks for 128 channels after b1.
C15_WitnessNet ==
    /\ NetRuns /\ pc = "raised" /\ call.arch[1][2] = 128
\* ResNet18().layer_summary((1, 96, 96, 1)) ends with the shapes the notebook prints.
C15_WitnessResNet18 ==
    /\ NetRuns /\ call.arch = ResNet18 /\ pc = "returned"
    /\ ret.out = <<1, 10>> /\ Len(ret.log) = 8
    /\ ret.log[2].Y = <<1, 24, 24, 64>> /\ ret.log[4].Y = <<1, 12, 12, 128>>
    /\ ret.log[6].Y = <<1, 6, 6, 256>> /\ ret.log[8].Y = <<1, 3, 3, 512>>

(***************************************************************************)
(* Properties of WGAN.train_step and WGAN.gradient_penalty                 *)
(***************************************************************************)
TrainStepRuns == notebook = "wgan" /\ pc # "start"

C2_Losses ==
    TrainStepRuns =>
        /\ pc = "gp" =>
              gan.d_cost[1] * gan.batch_size =
                 (SumSeq(gan.fake_logits) - SumSeq(gan.real_logits)) * gan.d_cost[2]
        /\ pc = "d_apply" =>
              gan.d_loss[1] * gan.d_cost[2] * gan.gp[2] =
                 gan.d_loss[2] * (gan.d_cost[1] * gan.gp[2] + 10 * gan.gp[1] * gan.d_cost[2])
        /\ (pc = "d_loop" /\ gan.i > 0) => gan.differentiated = gan.d_loss
        /\ pc = "return" =>
              /\ gan.g_loss[1] * gan.batch_size = -SumSeq(gan.gen_img_logits) * gan.g_loss[2]
              /\ gan.differentiated = gan.g_loss

C2_Witness ==
    /\ TrainStepRuns /\ pc = "d_loop" /\ gan.i > 0
    /\ gan.batch_size = 2
    /\ gan.d_cost = <<-1, 2>> /\ gan.gp = <<8, 1>>
    /\ gan.differentiated = <<159, 2>>

\* C3: gradient_penalty feeds the discriminator real + alpha * (fake - real)
\* with a per-sample alpha in [0, 1], so every pixel of the interpolated
\* image lies between the corresponding real and fake pixel.
C3_InterpolatedBetween ==
    (TrainStepRuns /\ pc = "gp_grads") =>
        \A s \in 1..gan.batch_size :
            /\ 0 <= gan.alpha[s] /\ gan.alpha[s] <= 1
            /\ \A q \in 1..Len(gan.interpolated[s]) :
                  LET r == gan.real_images[s][q]
                      f == gan.fake_images[s][q]
                      x == gan.interpolated[s][q]
                  IN /\ x = r + gan.alpha[s] * (f - r)
                     /\ (IF r <= f THEN r ELSE f) <= x
                     /\ x <= (IF r <= f THEN f ELSE r)

\* The operations Residual.call applies, in order, for a block with or
\* without the 1x1 convolution.
CallOrder(use_1x1conv) ==
    <<"conv1", "bn1", "relu", "conv2", "bn2">>
        \o (IF use_1x1conv THEN <<"conv3">> ELSE <<>>) \o <<"add", "relu">>

\* C11: Residual.call applies conv1, bn1, ReLU, conv2, bn2, the addition of
\* the shortcut and the final ReLU in this order; the shortcut is added
\* after bn2 and before the final ReLU, and it is the input X without the
\* 1x1 convolution and conv3(X) (1x1 kernel, the block's strides and
\* num_channels) with it.
C11_CallOrder ==
    (ResidualRuns /\ pc # "conv1") =>
        /\ Len(resv.ops) <= Len(CallOrder(call.use_1x1conv))
        /\ resv.ops = SubSeq(CallOrder(call.use_1x1conv), 1, Len(resv.ops))
        /\ pc = "returned" => resv.ops = CallOrder(call.use_1x1conv)
        /\ (pc \in {"add", "relu2", "raised", "returned"}) =>
              resv.X = IF call.use_1x1conv
                       THEN <<call.X[1], CeilDiv(call.X[2], call.strides),
                              CeilDiv(call.X[3], call.strides), call.num_channels>>
                       ELSE call.X
        /\ \A k \in 1..Len(resv.ops) :
              resv.ops[k] = "add" =>
                 /\ \E j \in 1..(k - 1) : resv.ops[j] = "bn2"
                 /\ \A j \in 1..(k - 1) : resv.ops[j] = "relu" => j = 3

C11_Witness ==
    /\ ResidualRuns /\ pc = "returned"
    /\ call.use_1x1conv /\ call.X = <<4, 6, 6, 3>>
    /\ resv.X = <<4, 3, 3, 6>>
    /\ resv.ops = <<"conv1", "bn1", "relu", "conv2", "bn2", "conv3", "add", "relu">>

(***************************************************************************)
(* Properties of GANMonitor                                                *)
(***************************************************************************)
MonitorRuns == notebook = "monitor" /\ pc # "start"

\* C12: on_epoch_end saves exactly num_img images at the end of every epoch,
\* named generated_img_{i}_{epoch}.png for i in 0..num_img-1 and the 0-based
\* epoch; distinct (i, epoch) give distinct names, so after E epochs exactly
\* num_img * E files exist and none written in the fit has been overwritten.
C12_SavedImages ==
    MonitorRuns =>
        /\ mon.saves = mon.num_img * mon.epoch
        /\ Cardinality(mon.fs) = mon.num_img * mon.epoch
        /\ pc = "returned" => Cardinality(mon.fs) = mon.num_img * mon.epochs
        /\ \A i \in 0..(mon.num_img - 1), e \in 0..(mon.epoch - 1) :
              \E f \in mon.fs : f[2] = <<i, e>>
        /\ \A f \in mon.fs, g \in mon.fs : f[1] = g[1] => f[2] = g[2]
        /\ \A f \in mon.fs :
              /\ f[2][1] \in 0..(mon.num_img - 1) /\ f[2][2] \in 0..(mon.epoch - 1)
              /\ f[2] = <<0, 0>> => f[1] = "generated_img_0_0.png"
              /\ f[2] = <<2, 4>> => f[1] = "generated_img_2_4.png"
              /\ f[2] = <<1, 10>> => f[1] = "generated_img_1_10.png"
              /\ f[2] = <<11, 0>> => f[1] = "generated_img_11_0.png"

C12_Witness ==
    /\ MonitorRuns /\ pc = "returned"
    /\ mon.num_img = 12 /\ mon.epochs = 11
    /\ <<"generated_img_1_10.png", <<1, 10>>>> \in mon.fs
    /\ <<"generated_img_11_0.png", <<11, 0>>>> \in mon.fs
    /\ Cardinality(mon.fs) = 132

(***************************************************************************)
(* The face-detection loop                                                 *)
(***************************************************************************)
FaceRuns == notebook = "face" /\ pc # "start"
InLoop == pc \in {"read", "detect", "imshow", "waitKey"}
QReported == face.key \in {ORD_Q, Q_WITH_FLAGS}
ReadFailed == face.trace = <<"read">> /\ ~face.result
QPressed == face.trace = <<"read", "detect_bounding_box", "imshow", "waitKey">> /\ QReported

\* C13: the loop is left exactly when a read fails or waitKey reports "q":
\* outside the loop the last step was a failed read or a "q", inside the loop
\* it was neither.  release() and destroyAllWindows() run once each, in that
\* order, after the loop and never inside it; so a run without a failed read
\* and without "q" stays in the loop with the camera unreleased.
C13_LoopExit ==
    FaceRuns =>
        /\ ~InLoop => (ReadFailed \/ QPressed)
        /\ InLoop => /\ face.released = 0 /\ face.destroyed = 0
                     /\ pc = "read" => (face.trace = <<>> \/ (face.result /\ ~QReported
                                           /\ Len(face.trace) = 4))
                     /\ pc # "read" => face.result
        /\ pc = "release" => (face.released = 0 /\ face.destroyed = 0)
        /\ pc = "destroy" => (face.released = 1 /\ face.destroyed = 0)
        /\ pc = "returned" => (face.released = 1 /\ face.destroyed = 1)

\* Both exit paths reach the end of the notebook, and the loop also went
\* round after a key that is not "q".
C13_WitnessReadFailed == FaceRuns /\ pc = "returned" /\ ReadFailed /\ face.frames > 0
C13_WitnessQ == FaceRuns /\ pc = "returned" /\ QPressed /\ face.key = Q_WITH_FLAGS
C13_Witness ==
    FaceRuns /\ pc = "returned" /\ QPressed /\ face.key = Q_WITH_FLAGS /\ face.frames = MaxFrames

Drawn(faces) == {<<f[1], f[2], f[1] + f[3], f[2] + f[4]>> : f \in faces}
FrameOrder == <<"read", "detect_bounding_box", "imshow", "waitKey">>

\* C14: the steps on one frame are a prefix of read, detect_bounding_box,
\* imshow, waitKey; the frame on display is the last frame that was read and
\* given to detect_bounding_box, and carries exactly one rectangle
\* (x, y)-(x + w, y + h) per detected face; after a failed read nothing is
\* detected on or displayed of that frame.
C14_FrameOrder ==
    FaceRuns =>
        /\ Len(face.trace) <= 4
        /\ face.trace = SubSeq(FrameOrder, 1, Len(face.trace))
        /\ face.shown <= face.detected /\ face.detected <= face.frames
        /\ face.frames <= face.detected + 1
        /\ face.detected <= face.shown + 1
        /\ Len(face.trace) >= 2 =>
             /\ face.result
             /\ face.detected = face.video_frame.id /\ face.video_frame.id = face.frames
             /\ face.video_frame.rects = Drawn(face.faces)
        /\ Len(face.trace) >= 3 =>
             /\ face.shown = face.video_frame.id
             /\ face.displayed = face.video_frame
        /\ face.displayed.id = face.shown
        /\ ~face.result =>
             /\ face.trace = <<"read">>
             /\ face.video_frame = NoFrame
             /\ face.detected = face.frames /\ face.shown = face.frames
             /\ pc \in {"release", "destroy", "returned"}

\* A frame with two faces is on display, and a read failed after a frame
\* had been displayed.
C14_Witness ==
    /\ FaceRuns /\ pc = "waitKey"
    /\ face.faces = Faces /\ Cardinality(face.displayed.rects) = 2
    /\ face.frames = 2
C14_WitnessFailed == FaceRuns /\ ~face.result /\ face.shown = 2 /\ pc = "returned"

=============================================================================
